---------------------------- MODULE Spec2Model ----------------------------
(***************************************************************************)
(* A state-machine model of the schoolqr attendance application:           *)
(* the in-memory entity store held by App, the login page, the student     *)
(* registration form with its delayed completion, the admin's student      *)
(* removal, the teacher's scanner (camera, cooldown, result display,       *)
(* manual entry, simulated tap), the teacher's change-password dialog, the *)
(* admin's management of teachers and the attendance statistics.           *)
(*                                                                         *)
(* Strings are TLA+ strings; the string functions of the code (trim,       *)
(* toUpperCase, replace(/\s+/g,'-'), the e-mail regular expression) are    *)
(* computed character by character.  Date.now() is the variable now, in    *)
(* milliseconds counted from the start of 2024-08-24 UTC (TLC's integers   *)
(* are 32 bits wide); several handlers may run at one clock reading.  A    *)
(* setTimeout callback runs once the clock has reached its due time, and   *)
(* the clock does not advance past a callback that is due.                 *)
(***************************************************************************)
EXTENDS Integers, Sequences, FiniteSets, TLC

VARIABLES
    \* App.tsx (the entity store and the session)
    currentUser, currentView, students, teachers, attendanceRecords,
    \* Date.now()
    now,
    \* LoginPage
    loginError,
    \* StudentRegistration
    regErrors, regLoading, regTimers,
    \* TeacherDashboard / AdminDashboard
    activeTab,
    \* CombinedQRScanner
    lastScanTime, scanResult, manualError, clearTimers,
    isScanning, stream, scanInterval, hasPermission, cameraPending, liveStreams,
    restartTimers, orphans,
    \* TeacherProfile
    isPasswordDialogOpen, passwordErrors, pwdLoading, pwdTimers,
    \* TeacherManagement
    isAddDialogOpen, isEditDialogOpen, selectedTeacher, mgmtErrors,
    \* AttendanceReports
    selectedDate, selectedClass,
    \* observation: the handler that ran last, with its inputs, and for the
    \* mounted scanner the times of its latest handleScan call and of its
    \* latest handleScan call that was not suppressed
    event, evalLog

storeVars   == <<students, teachers, attendanceRecords>>
sessionVars == <<currentUser, currentView, loginError, activeTab>>
regVars     == <<regErrors, regLoading, regTimers>>
cameraVars  == <<isScanning, stream, scanInterval, hasPermission, cameraPending, liveStreams,
                 restartTimers, orphans>>
scanVars    == <<lastScanTime, scanResult, manualError, clearTimers, evalLog>>
profileVars == <<isPasswordDialogOpen, passwordErrors, pwdLoading, pwdTimers>>
mgmtVars    == <<isAddDialogOpen, isEditDialogOpen, selectedTeacher, mgmtErrors>>
reportVars  == <<selectedDate, selectedClass>>

vars == <<currentUser, currentView, students, teachers, attendanceRecords, now,
          loginError, regErrors, regLoading, regTimers, activeTab,
          lastScanTime, scanResult, manualError, clearTimers,
          isScanning, stream, scanInterval, hasPermission, cameraPending, liveStreams,
          isPasswordDialogOpen, passwordErrors, pwdLoading, pwdTimers, event,
          evalLog, isAddDialogOpen, isEditDialogOpen, selectedTeacher, mgmtErrors,
          selectedDate, selectedClass, restartTimers, orphans>>

----------------------------------------------------------------------------
(* Bounds of the model *)

\* The clock advances in steps of TickMs milliseconds.
TickMs == 1000
\* The number of clock steps followed in the registration, scanner,
\* password and teacher-management specifications.
RegTicks == 1
ScanTicks == 3
PwdTicks == 1
MgmtTicks == 1
AttendTicks == 3
FlagTicks == 2
CamTicks == 1
RollTicks == 1
CodeTicks == 2
\* At most this many students, attendance records and teachers are held.
MaxStudents == 5
MaxRecords == 3
MaxTeachers == 2
\* At most this many registration / password timers are pending at once.
MaxPending == 2

(* Program constants *)

CooldownMs == 2000
ResultDisplayMs == 3000
SwitchDelayMs == 100
RegistrationDelayMs == 1000
PasswordDelayMs == 1000
MinSchoolIdLength == 6
MinPasswordLength == 6
TapPool == 3
\* 2024-08-24, the date of the two initial attendance records, as a day number.
InitialRecordDay == 19959

DayMs == 24 * 60 * 60 * 1000
MinuteMs == 60 * 1000

\* The page is opened one second before the UTC midnight that ends 2024-08-24.
StartNow == DayMs - 1000
\* The reading 0 of Date.now(), the initial lastScanTime: 1970 lies further
\* back than the clock's origin, and every reading more than CooldownMs before
\* the first Date.now() behaves alike.
UnixEpoch == 0 - DayMs
\* The clock reading after n steps.
ClockAfter(n) == StartNow + n * TickMs

----------------------------------------------------------------------------
(* Strings *)

CharAt(s, i) == SubSeq(s, i, i)

\* The characters \s and trim() treat as white space, among those that occur.
IsSpace(c) == c \in {" ", "\t"}

LowerLetters == "abcdefghijklmnopqrstuvwxyz"
UpperLetters == "ABCDEFGHIJKLMNOPQRSTUVWXYZ"

LowerSet == {CharAt(LowerLetters, i) : i \in 1..Len(LowerLetters)}
UpperMap ==
    [c \in LowerSet |->
        CharAt(UpperLetters, CHOOSE i \in 1..Len(LowerLetters) : CharAt(LowerLetters, i) = c)]

UpperChar(c) == IF c \in LowerSet THEN UpperMap[c] ELSE c

RECURSIVE toUpperCase(_)
toUpperCase(s) ==
    IF s = "" THEN "" ELSE UpperChar(Head(s)) \o toUpperCase(Tail(s))

RECURSIVE trimStart(_)
trimStart(s) ==
    IF s = "" THEN ""
    ELSE IF IsSpace(Head(s)) THEN trimStart(Tail(s)) ELSE s

RECURSIVE trimEnd(_)
trimEnd(s) ==
    IF s = "" THEN ""
    ELSE IF IsSpace(CharAt(s, Len(s))) THEN trimEnd(SubSeq(s, 1, Len(s) - 1)) ELSE s

trim(s) == trimEnd(trimStart(s))

\* name.replace(/\s+/g, '-'): every maximal run of white space becomes one hyphen.
RECURSIVE replaceWhitespace(_)
replaceWhitespace(s) ==
    IF s = "" THEN ""
    ELSE IF IsSpace(Head(s)) THEN "-" \o replaceWhitespace(trimStart(s))
    ELSE Head(s) \o replaceWhitespace(Tail(s))

\* [^\s@]+ : a non-empty string without white space and without "@".
PlainPart(s) ==
    /\ s # ""
    /\ \A i \in 1..Len(s) : ~IsSpace(CharAt(s, i)) /\ CharAt(s, i) # "@"

\* /^[^\s@]+@[^\s@]+\.[^\s@]+$/.test(s)
emailRegexTest(s) ==
    \E i \in 1..Len(s) :
        /\ CharAt(s, i) = "@"
        /\ PlainPart(SubSeq(s, 1, i - 1))
        /\ \E j \in (i + 1)..Len(s) :
              /\ CharAt(s, j) = "."
              /\ PlainPart(SubSeq(s, i + 1, j - 1))
              /\ PlainPart(SubSeq(s, j + 1, Len(s)))

\* MakeQrCode without the upper-casing: the variant C7 must tell apart.
MakeQrCodeKeepingCase(schoolId, name) == schoolId \o "-" \o replaceWhitespace(name)

\* `${schoolId}-${name.replace(/\s+/g, '-').toUpperCase()}`
MakeQrCode(schoolId, name) == schoolId \o "-" \o toUpperCase(replaceWhitespace(name))

----------------------------------------------------------------------------
(* Sequences *)

Range(q) == {q[i] : i \in 1..Len(q)}

RECURSIVE SeqFilter(_, _)
\* Array.prototype.filter with the test given as the set of elements to keep.
SeqFilter(q, keep) ==
    IF q = <<>> THEN <<>>
    ELSE IF Head(q) \in keep THEN <<Head(q)>> \o SeqFilter(Tail(q), keep)
    ELSE SeqFilter(Tail(q), keep)

\* Array.prototype.find over indices: the least index whose element is in hits, or 0.
FindIndex(q, hits) ==
    IF \E i \in 1..Len(q) : q[i] \in hits
    THEN CHOOSE i \in 1..Len(q) : q[i] \in hits /\ \A k \in 1..(i - 1) : q[k] \notin hits
    ELSE 0

----------------------------------------------------------------------------
(* Time *)

\* now.toISOString().split('T')[0]: the UTC calendar date, as a day number.
DateOf(t) == InitialRecordDay + (t \div DayMs)
\* now.toTimeString().split(' ')[0].substring(0, 5): hours and minutes, as the
\* minute of the day (the zone offset is taken to be zero).
TimeOf(t) == (t % DayMs) \div MinuteMs
\* Date.now().toString()
NewId(t) == ToString(t)

----------------------------------------------------------------------------
(* The initial store: App.tsx *)

NoUser == [id |-> "", name |-> "", email |-> "", role |-> "none", qrCode |-> ""]

InitialStudents ==
    << [id |-> "1", name |-> "John Doe", email |-> "john.doe@student.edu",
        class |-> "10A", schoolId |-> "STU2024001", qrCode |-> "STU2024001-JOHN-DOE"],
       [id |-> "2", name |-> "Jane Smith", email |-> "jane.smith@student.edu",
        class |-> "10A", schoolId |-> "STU2024002", qrCode |-> "STU2024002-JANE-SMITH"],
       [id |-> "3", name |-> "Mike Johnson", email |-> "mike.johnson@student.edu",
        class |-> "10B", schoolId |-> "STU2024003", qrCode |-> "STU2024003-MIKE-JOHNSON"] >>

DefaultTeacherPassword == "teacher123"
StudentPassword == "student123"
AdminEmail == "admin@school.edu"
AdminPassword == "admin123"

InitialTeachers ==
    << [id |-> "teacher1", name |-> "John Teacher", email |-> "teacher@school.edu",
        subject |-> "Mathematics", createdBy |-> "admin@school.edu",
        password |-> "teacher123", isDefaultPassword |-> TRUE] >>

InitialAttendanceRecords ==
    << [id |-> "1", studentId |-> "1", studentName |-> "John Doe",
        date |-> InitialRecordDay, time |-> 9 * 60, status |-> "present",
        markedBy |-> "teacher@school.edu"],
       [id |-> "2", studentId |-> "2", studentName |-> "Jane Smith",
        date |-> InitialRecordDay, time |-> 9 * 60 + 2, status |-> "present",
        markedBy |-> "teacher@school.edu"] >>

RegFields == {"name", "email", "confirmEmail", "schoolId", "class"}
NoRegErrors == [f \in RegFields |-> ""]
PwdFields == {"currentPassword", "newPassword", "confirmPassword"}
NoPwdErrors == [f \in PwdFields |-> ""]
NoStudent == [id |-> "", name |-> "", email |-> "", class |-> "", schoolId |-> "",
              qrCode |-> ""]
NoResult == [shown |-> FALSE, success |-> FALSE, student |-> NoStudent]
NoEvent == [op |-> "none"]
NoEvalLog == [last |-> UnixEpoch, accepted |-> UnixEpoch]
NoTeacher == [id |-> "", name |-> "", email |-> "", subject |-> "", createdBy |-> "",
              password |-> "", isDefaultPassword |-> FALSE]
MgmtFields == {"name", "email"}
NoDate == -1
NoMgmtErrors == [f \in MgmtFields |-> ""]

Init ==
    /\ currentUser = NoUser
    /\ currentView = "login"
    /\ students = InitialStudents
    /\ teachers = InitialTeachers
    /\ attendanceRecords = InitialAttendanceRecords
    /\ now = StartNow
    /\ loginError = ""
    /\ regErrors = NoRegErrors
    /\ regLoading = FALSE
    /\ regTimers = <<>>
    /\ activeTab = "none"
    /\ lastScanTime = UnixEpoch
    /\ scanResult = NoResult
    /\ manualError = ""
    /\ clearTimers = <<>>
    /\ isScanning = FALSE
    /\ stream = 0
    /\ scanInterval = FALSE
    /\ hasPermission = "null"
    /\ cameraPending = 0
    /\ liveStreams = 0
    /\ restartTimers = <<>>
    /\ orphans = <<>>
    /\ isPasswordDialogOpen = FALSE
    /\ passwordErrors = NoPwdErrors
    /\ pwdLoading = FALSE
    /\ pwdTimers = <<>>
    /\ event = NoEvent
    /\ evalLog = NoEvalLog
    /\ isAddDialogOpen = FALSE
    /\ isEditDialogOpen = FALSE
    /\ selectedTeacher = NoTeacher
    /\ mgmtErrors = NoMgmtErrors
    /\ selectedDate = NoDate
    /\ selectedClass = "all"

----------------------------------------------------------------------------
(* Which components are mounted: the render of App.tsx and the dashboards *)

LoginPageMounted == currentUser.role = "none" /\ currentView = "login"
RegistrationMounted == currentUser.role = "none" /\ currentView = "register"
AdminMounted == currentUser.role = "admin"

\* getCurrentTeacher: the first teacher whose e-mail is the session's, or 0.
CurrentTeacherIndex ==
    IF currentUser.role = "teacher"
    THEN FindIndex(teachers, {t \in Range(teachers) : t.email = currentUser.email})
    ELSE 0

TeacherMounted == currentUser.role = "teacher" /\ CurrentTeacherIndex # 0
ScannerMounted == TeacherMounted /\ activeTab = "scan"
ProfileMounted == TeacherMounted /\ activeTab = "profile"
StudentMounted == currentUser.role = "student"

\* The history handed to StudentDashboard without the filter: the variant C16
\* must tell apart.
StudentHistoryUnfiltered == attendanceRecords

\* The attendanceRecords prop App hands to StudentDashboard.
StudentHistory ==
    SeqFilter(attendanceRecords,
              {r \in Range(attendanceRecords) : r.studentId = currentUser.id})


----------------------------------------------------------------------------
(* Unmounting: a component's local state is discarded, and a later mount    *)
(* starts from the useState initial values.  The state of a component that  *)
(* is not mounted is held at those initial values.                          *)

\* StudentRegistration's local state after a mount.  A pending setTimeout
\* of an earlier mount stays scheduled.
RegistrationFresh ==
    /\ regErrors' = NoRegErrors
    /\ regLoading' = FALSE

\* CombinedQRScanner's unmount effect runs the stopCamera of the first
\* render, whose stream is null: no track is stopped; the interval, held in
\* a ref, is cleared.  The result-clearing timeouts of the instance can only
\* set the state of the instance that is gone.  The getUserMedia calls the
\* instance is awaiting and the restarts switchCamera has scheduled are not
\* cancelled: they go on in orphans, one entry for the instance.
ScannerUnmount ==
    /\ lastScanTime' = UnixEpoch
    /\ scanResult' = NoResult
    /\ manualError' = ""
    /\ clearTimers' = <<>>
    /\ evalLog' = NoEvalLog
    /\ isScanning' = FALSE
    /\ stream' = 0
    /\ scanInterval' = FALSE
    /\ hasPermission' = "null"
    /\ cameraPending' = 0
    /\ restartTimers' = <<>>
    /\ orphans' = IF cameraPending > 0 \/ restartTimers # <<>>
                  THEN Append(orphans, [pending |-> cameraPending, interval |-> FALSE,
                                        restarts |-> restartTimers])
                  ELSE orphans
    /\ UNCHANGED liveStreams

\* TeacherManagement's local state is discarded.
\* AttendanceReports is mounted with today's date and no class filter.
ReportsMount ==
    /\ selectedDate' = DateOf(now)
    /\ selectedClass' = "all"

ReportsUnmount ==
    /\ selectedDate' = NoDate
    /\ selectedClass' = "all"

MgmtUnmount ==
    /\ isAddDialogOpen' = FALSE
    /\ isEditDialogOpen' = FALSE
    /\ selectedTeacher' = NoTeacher
    /\ mgmtErrors' = NoMgmtErrors

\* TeacherProfile's local state is discarded; its pending setTimeout stays
\* scheduled, and its state updates will reach no mounted instance.
ProfileUnmount ==
    /\ isPasswordDialogOpen' = FALSE
    /\ passwordErrors' = NoPwdErrors
    /\ pwdLoading' = FALSE
    /\ pwdTimers' = [i \in 1..Len(pwdTimers) |-> [pwdTimers[i] EXCEPT !.live = FALSE]]

----------------------------------------------------------------------------
(* LoginPage and App: the session *)

DefaultTab(role) ==
    CASE role = "teacher" -> "scan"
      [] role = "admin" -> "overview"
      [] OTHER -> "none"

\* LoginUser without the check of the student password: the variant C13 must
\* tell apart.
LoginUserAnyStudentPassword(role, email, password) ==
    CASE role = "admin" ->
            IF email = AdminEmail /\ password = AdminPassword
            THEN [id |-> "admin1", name |-> "School Administrator",
                  email |-> "admin@school.edu", role |-> "admin", qrCode |-> ""]
            ELSE NoUser
      [] role = "teacher" ->
            LET i == FindIndex(teachers, {t \in Range(teachers) : t.email = email})
            IN  IF i # 0 /\ teachers[i].password = password
                THEN [id |-> teachers[i].id, name |-> teachers[i].name,
                      email |-> teachers[i].email, role |-> "teacher", qrCode |-> ""]
                ELSE NoUser
      [] role = "student" ->
            LET i == FindIndex(students, {s \in Range(students) : s.email = email})
            IN  IF i # 0
                THEN [id |-> students[i].id, name |-> students[i].name,
                      email |-> students[i].email, role |-> "student",
                      qrCode |-> students[i].qrCode]
                ELSE NoUser

\* The user LoginPage.handleLogin hands to onLogin, or NoUser on a rejection.
LoginUser(role, email, password) ==
    CASE role = "admin" ->
            IF email = AdminEmail /\ password = AdminPassword
            THEN [id |-> "admin1", name |-> "School Administrator",
                  email |-> "admin@school.edu", role |-> "admin", qrCode |-> ""]
            ELSE NoUser
      [] role = "teacher" ->
            LET i == FindIndex(teachers, {t \in Range(teachers) : t.email = email})
            IN  IF i # 0 /\ teachers[i].password = password
                THEN [id |-> teachers[i].id, name |-> teachers[i].name,
                      email |-> teachers[i].email, role |-> "teacher", qrCode |-> ""]
                ELSE NoUser
      [] role = "student" ->
            LET i == FindIndex(students, {s \in Range(students) : s.email = email})
            IN  IF i # 0 /\ password = StudentPassword
                THEN [id |-> students[i].id, name |-> students[i].name,
                      email |-> students[i].email, role |-> "student",
                      qrCode |-> students[i].qrCode]
                ELSE NoUser

LoginErrorMessage(role) ==
    CASE role = "admin" -> "Invalid admin credentials"
      [] role = "teacher" -> "Invalid teacher email or password"
      [] role = "student" -> "Invalid student credentials or account not found"

\* LoginPage.handleLogin, and App.handleLogin on success.
handleLogin(role, email, password) ==
    /\ LoginPageMounted
    /\ LET user == LoginUser(role, email, password)
       IN  IF user.role # "none"
           THEN /\ currentUser' = user
                /\ currentView' = "login"
                /\ loginError' = ""
                /\ activeTab' = DefaultTab(role)
           ELSE /\ loginError' = LoginErrorMessage(role)
                /\ UNCHANGED <<currentUser, currentView, activeTab>>
    /\ event' = [op |-> "handleLogin", role |-> role, email |-> email, password |-> password]
    /\ UNCHANGED <<storeVars, now, regVars, scanVars, cameraVars, profileVars, mgmtVars, reportVars>>

\* App.handleLogout: every dashboard is unmounted.
handleLogout ==
    /\ currentUser.role # "none"
    /\ currentUser' = NoUser
    /\ currentView' = "login"
    /\ loginError' = ""
    /\ activeTab' = "none"
    /\ ScannerUnmount
    /\ ProfileUnmount
    /\ MgmtUnmount
    /\ ReportsUnmount
    /\ event' = [op |-> "handleLogout"]
    /\ UNCHANGED <<storeVars, now, regVars>>

\* App.handleShowRegister, from the login page.
handleShowRegister ==
    /\ LoginPageMounted
    /\ currentView' = "register"
    /\ loginError' = ""
    /\ RegistrationFresh
    /\ event' = [op |-> "handleShowRegister"]
    /\ UNCHANGED <<currentUser, activeTab, storeVars, now, regTimers, scanVars,
                   cameraVars, profileVars, mgmtVars, reportVars>>

\* App.handleShowLogin, from the registration page.
handleShowLogin ==
    /\ RegistrationMounted
    /\ currentView' = "login"
    /\ RegistrationFresh
    /\ event' = [op |-> "handleShowLogin"]
    /\ UNCHANGED <<currentUser, loginError, activeTab, storeVars, now, regTimers,
                   scanVars, cameraVars, profileVars, mgmtVars, reportVars>>

----------------------------------------------------------------------------
(* StudentRegistration *)

\* isSchoolIdTaken answering no for every identifier: the variant C6 must
\* tell apart.
isSchoolIdTakenNever(schoolId) == FALSE

\* App.isSchoolIdTaken
isSchoolIdTaken(schoolId) == \E s \in Range(students) : s.schoolId = schoolId

\* StudentRegistration.validateForm: the errors it sets.
validateForm(formData) ==
    [f \in RegFields |->
        CASE f = "name" ->
                IF trim(formData.name) = "" THEN "Full name is required" ELSE ""
          [] f = "email" ->
                IF trim(formData.email) = "" THEN "Email is required"
                ELSE IF ~emailRegexTest(formData.email)
                     THEN "Please enter a valid email address" ELSE ""
          [] f = "confirmEmail" ->
                IF trim(formData.confirmEmail) = "" THEN "Please confirm your email"
                ELSE IF formData.email # formData.confirmEmail
                     THEN "Emails do not match" ELSE ""
          [] f = "schoolId" ->
                IF trim(formData.schoolId) = "" THEN "School ID is required"
                ELSE IF Len(formData.schoolId) < MinSchoolIdLength
                     THEN "School ID must be at least 6 characters"
                ELSE IF isSchoolIdTaken(formData.schoolId)
                     THEN "This School ID is already registered" ELSE ""
          [] f = "class" ->
                IF formData.class = "" THEN "Please select your class" ELSE ""]

\* The form as handleInputChange leaves it: the school ID field is upper-cased
\* as it is typed.
TypedForm(typed) == [typed EXCEPT !.schoolId = toUpperCase(typed.schoolId)]

\* StudentRegistration.handleSubmit, up to the setTimeout.  The submit button
\* is disabled while isLoading.
handleSubmit(typed) ==
    /\ RegistrationMounted
    /\ ~regLoading
    /\ LET formData == TypedForm(typed)
           newErrors == validateForm(formData)
       IN  /\ regErrors' = newErrors
           /\ IF newErrors = NoRegErrors
              THEN /\ Len(regTimers) < MaxPending
                   /\ Len(students) + Len(regTimers) < MaxStudents
                   /\ regLoading' = TRUE
                   /\ regTimers' = Append(regTimers,
                          [due |-> now + RegistrationDelayMs, formData |-> formData])
              ELSE UNCHANGED <<regLoading, regTimers>>
           /\ event' = [op |-> "handleSubmit", formData |-> formData]
    /\ UNCHANGED <<sessionVars, storeVars, now, scanVars, cameraVars, profileVars, mgmtVars, reportVars>>

\* The student the setTimeout callback of handleSubmit builds.
NewStudent(formData, t) ==
    [id |-> NewId(t), name |-> formData.name, email |-> formData.email,
     class |-> formData.class, schoolId |-> formData.schoolId,
     qrCode |-> MakeQrCode(formData.schoolId, formData.name)]

\* App.handleStudentRegistration: the students after onRegister(student).
RegisterStudent(studs, student) == Append(studs, student)

\* The setTimeout callback of handleSubmit: onRegister(newStudent), which is
\* App.handleStudentRegistration, then setIsLoading(false).  The view becomes
\* 'login', so a mounted registration form is unmounted.
RegistrationTimeout ==
    /\ regTimers # <<>>
    /\ Head(regTimers).due <= now
    /\ students' = RegisterStudent(students, NewStudent(Head(regTimers).formData, now))
    /\ currentView' = "login"
    /\ regTimers' = Tail(regTimers)
    /\ RegistrationFresh
    /\ event' = [op |-> "RegistrationTimeout", formData |-> Head(regTimers).formData]
    /\ UNCHANGED <<currentUser, loginError, activeTab, teachers, attendanceRecords,
                   now, scanVars, cameraVars, profileVars, mgmtVars, reportVars>>

----------------------------------------------------------------------------
(* AdminDashboard *)

AdminTabs == {"overview", "teachers", "students", "reports"}

\* The Tabs of AdminDashboard: setActiveTab.  The content of the tab that is
\* left is unmounted.
adminSetActiveTab(tab) ==
    /\ AdminMounted
    /\ tab # activeTab
    /\ activeTab' = tab
    /\ IF activeTab = "teachers" THEN MgmtUnmount ELSE UNCHANGED mgmtVars
    /\ IF tab = "reports" THEN ReportsMount ELSE ReportsUnmount
    /\ event' = [op |-> "setActiveTab", tab |-> tab]
    /\ UNCHANGED <<currentUser, currentView, loginError, storeVars, now, regVars,
                   scanVars, cameraVars, profileVars>>

\* A removal that leaves the attendance records alone: the variant C10 must
\* tell apart.
deleteStudentKeepingRecords(studentId) ==
    /\ AdminMounted
    /\ activeTab = "students"
    /\ \E s \in Range(students) : s.id = studentId
    /\ students' = SeqFilter(students, {s \in Range(students) : s.id # studentId})
    /\ event' = [op |-> "deleteStudent", studentId |-> studentId]
    /\ UNCHANGED <<sessionVars, teachers, attendanceRecords, now, regVars, scanVars,
                   cameraVars, profileVars, mgmtVars, reportVars>>

\* App.deleteStudent, from the Remove button of the students tab.
deleteStudent(studentId) ==
    /\ AdminMounted
    /\ activeTab = "students"
    /\ \E s \in Range(students) : s.id = studentId
    /\ students' = SeqFilter(students, {s \in Range(students) : s.id # studentId})
    /\ attendanceRecords' = SeqFilter(attendanceRecords,
           {r \in Range(attendanceRecords) : r.studentId # studentId})
    /\ event' = [op |-> "deleteStudent", studentId |-> studentId]
    /\ UNCHANGED <<sessionVars, teachers, now, regVars, scanVars, cameraVars, profileVars, mgmtVars, reportVars>>

----------------------------------------------------------------------------
(* AttendanceReports *)

ReportsMounted == AdminMounted /\ activeTab = "reports"

\* The date input's onChange.
setSelectedDate(date) ==
    /\ ReportsMounted
    /\ selectedDate' = date
    /\ event' = [op |-> "setSelectedDate", date |-> date]
    /\ UNCHANGED <<sessionVars, storeVars, now, regVars, scanVars, cameraVars, profileVars,
                   mgmtVars, selectedClass>>

classes == {s.class : s \in Range(students)}

\* The Select's onValueChange: 'all' or one of the classes of the students.
setSelectedClass(class) ==
    /\ ReportsMounted
    /\ class \in classes \cup {"all"}
    /\ selectedClass' = class
    /\ event' = [op |-> "setSelectedClass", class |-> class]
    /\ UNCHANGED <<sessionVars, storeVars, now, regVars, scanVars, cameraVars, profileVars,
                   mgmtVars, selectedDate>>

filteredStudents ==
    IF selectedClass = "all" THEN students
    ELSE SeqFilter(students, {s \in Range(students) : s.class = selectedClass})

dateAttendance ==
    SeqFilter(attendanceRecords, {r \in Range(attendanceRecords) : r.date = selectedDate})

\* getAttendanceForStudent looking in the records of every date: the variant
\* C20 must tell apart.
getAttendanceForStudentAnyDate(studentId) ==
    FindIndex(attendanceRecords, {r \in Range(attendanceRecords) : r.studentId = studentId})

\* The index in dateAttendance of the record find returns, 0 for undefined.
getAttendanceForStudent(studentId) ==
    FindIndex(dateAttendance, {r \in Range(dateAttendance) : r.studentId = studentId})

\* The Status cell of the row of a student.
StatusCell(student) ==
    IF getAttendanceForStudent(student.id) # 0 THEN "Present" ELSE "Absent"

presentCount ==
    Len(SeqFilter(filteredStudents,
                  {s \in Range(filteredStudents) : getAttendanceForStudent(s.id) # 0}))

\* (num / den * 100).toFixed(1): the decimal numeral of the nearest tenth.
toFixed1Percent(num, den) ==
    LET tenths == (2000 * num + den) \div (2 * den)
    IN  ToString(tenths \div 10) \o "." \o ToString(tenths % 10)

attendanceRate ==
    IF Len(filteredStudents) > 0
    THEN toFixed1Percent(presentCount, Len(filteredStudents))
    ELSE "0"

----------------------------------------------------------------------------
(* The overview statistics of TeacherDashboard and AdminDashboard *)

OverviewMounted == (TeacherMounted \/ AdminMounted) /\ activeTab = "overview"

\* The records dated today, as of the render at clock reading now.
todayAttendance ==
    SeqFilter(attendanceRecords, {r \in Range(attendanceRecords) : r.date = DateOf(now)})

todayAttendanceRate ==
    IF Len(students) > 0
    THEN toFixed1Percent(Len(todayAttendance), Len(students))
    ELSE "0"

----------------------------------------------------------------------------
(* TeacherManagement *)

MgmtMounted == AdminMounted /\ activeTab = "teachers"

\* The list of teachers with its buttons is behind the open dialog.
MgmtListUsable == MgmtMounted /\ ~isAddDialogOpen /\ ~isEditDialogOpen

\* The add Dialog's onOpenChange(true): resetAddForm.  selectedTeacher is
\* left as it is.
openAddDialog ==
    /\ MgmtListUsable
    /\ isAddDialogOpen' = TRUE
    /\ mgmtErrors' = NoMgmtErrors
    /\ event' = [op |-> "openAddDialog"]
    /\ UNCHANGED <<sessionVars, storeVars, now, regVars, scanVars, cameraVars,
                   profileVars, reportVars, isEditDialogOpen, selectedTeacher>>

\* The add Dialog's onOpenChange(false) and its Cancel button.
closeAddDialog ==
    /\ MgmtMounted
    /\ isAddDialogOpen
    /\ isAddDialogOpen' = FALSE
    /\ event' = [op |-> "closeAddDialog"]
    /\ UNCHANGED <<sessionVars, storeVars, now, regVars, scanVars, cameraVars,
                   profileVars, reportVars, isEditDialogOpen, selectedTeacher, mgmtErrors>>

\* TeacherManagement.openEditDialog, from the edit button of the i-th teacher.
openEditDialog(i) ==
    /\ MgmtListUsable
    /\ i \in 1..Len(teachers)
    /\ selectedTeacher' = teachers[i]
    /\ mgmtErrors' = NoMgmtErrors
    /\ isEditDialogOpen' = TRUE
    /\ event' = [op |-> "openEditDialog", teacher |-> teachers[i]]
    /\ UNCHANGED <<sessionVars, storeVars, now, regVars, scanVars, cameraVars,
                   profileVars, reportVars, isAddDialogOpen>>

\* The edit Dialog's onOpenChange(false) and its Cancel button:
\* setIsEditDialogOpen(false) only.
closeEditDialog ==
    /\ MgmtMounted
    /\ isEditDialogOpen
    /\ isEditDialogOpen' = FALSE
    /\ event' = [op |-> "closeEditDialog"]
    /\ UNCHANGED <<sessionVars, storeVars, now, regVars, scanVars, cameraVars,
                   profileVars, reportVars, isAddDialogOpen, selectedTeacher, mgmtErrors>>

\* validateForm's emailTaken: selectedTeacher?.id is undefined when no
\* teacher is selected, and no id is undefined.
emailTaken(email) ==
    \E t \in Range(teachers) :
        /\ t.email = email
        /\ (selectedTeacher = NoTeacher \/ t.id # selectedTeacher.id)

\* TeacherManagement.validateForm: newErrors, "" for a field without one
validateTeacherForm(formData) ==
    [f \in MgmtFields |->
        CASE f = "name" -> IF trim(formData.name) = "" THEN "Name is required" ELSE ""
          [] f = "email" ->
                IF trim(formData.email) = "" THEN "Email is required"
                ELSE IF ~emailRegexTest(formData.email)
                     THEN "Please enter a valid email address"
                ELSE IF emailTaken(formData.email)
                     THEN "This email is already in use" ELSE ""]

\* App.addTeacher
addTeacher(teachs, teacher) ==
    Append(teachs, [teacher EXCEPT !.password = DefaultTeacherPassword,
                                   !.isDefaultPassword = TRUE])

\* App.updateTeacher
updateTeacher(teachs, updatedTeacher) ==
    [i \in 1..Len(teachs) |->
        IF teachs[i].id = updatedTeacher.id THEN updatedTeacher ELSE teachs[i]]

\* App.deleteTeacher, as a function of the teachers
TeachersWithout(teachs, teacherId) ==
    SeqFilter(teachs, {t \in Range(teachs) : t.id # teacherId})

\* TeacherManagement.handleAddTeacher, the submit of the add dialog.
handleAddTeacher(formData) ==
    /\ MgmtMounted
    /\ isAddDialogOpen
    /\ LET newErrors == validateTeacherForm(formData)
       IN  /\ mgmtErrors' = newErrors
           /\ IF newErrors = NoMgmtErrors
              THEN /\ Len(teachers) < MaxTeachers
                   /\ teachers' = addTeacher(teachers,
                         [id |-> NewId(now), name |-> formData.name,
                          email |-> formData.email, subject |-> formData.subject,
                          createdBy |-> currentUser.email,
                          password |-> DefaultTeacherPassword, isDefaultPassword |-> TRUE])
                   /\ isAddDialogOpen' = FALSE
              ELSE UNCHANGED <<teachers, isAddDialogOpen>>
    /\ event' = [op |-> "handleAddTeacher", formData |-> formData]
    /\ UNCHANGED <<sessionVars, students, attendanceRecords, now, regVars, scanVars,
                   cameraVars, profileVars, reportVars, isEditDialogOpen, selectedTeacher>>

\* TeacherManagement.handleEditTeacher, the submit of the edit dialog.  The
\* dialog is opened by openEditDialog only, so a teacher is selected.
handleEditTeacher(formData) ==
    /\ MgmtMounted
    /\ isEditDialogOpen
    /\ LET newErrors == validateTeacherForm(formData)
       IN  /\ mgmtErrors' = newErrors
           /\ IF newErrors = NoMgmtErrors /\ selectedTeacher # NoTeacher
              THEN /\ teachers' = updateTeacher(teachers,
                         [selectedTeacher EXCEPT !.name = formData.name,
                                                 !.email = formData.email,
                                                 !.subject = formData.subject])
                   /\ isEditDialogOpen' = FALSE
                   /\ selectedTeacher' = NoTeacher
              ELSE UNCHANGED <<teachers, isEditDialogOpen, selectedTeacher>>
    /\ event' = [op |-> "handleEditTeacher", formData |-> formData]
    /\ UNCHANGED <<sessionVars, students, attendanceRecords, now, regVars, scanVars,
                   cameraVars, profileVars, reportVars, isAddDialogOpen>>

\* TeacherManagement.resetTeacherPassword, from the reset button of the i-th
\* teacher, shown for a teacher whose isDefaultPassword is false.
resetTeacherPassword(i) ==
    /\ MgmtListUsable
    /\ i \in 1..Len(teachers)
    /\ ~teachers[i].isDefaultPassword
    /\ teachers' = updateTeacher(teachers,
          [teachers[i] EXCEPT !.password = DefaultTeacherPassword,
                              !.isDefaultPassword = TRUE])
    /\ event' = [op |-> "resetTeacherPassword", teacherId |-> teachers[i].id]
    /\ UNCHANGED <<sessionVars, students, attendanceRecords, now, regVars, scanVars,
                   cameraVars, profileVars, mgmtVars, reportVars>>

\* App.deleteTeacher, from the delete button of a teacher.
deleteTeacher(teacherId) ==
    /\ MgmtListUsable
    /\ \E t \in Range(teachers) : t.id = teacherId
    /\ teachers' = TeachersWithout(teachers, teacherId)
    /\ event' = [op |-> "deleteTeacher", teacherId |-> teacherId]
    /\ UNCHANGED <<sessionVars, students, attendanceRecords, now, regVars, scanVars,
                   cameraVars, profileVars, mgmtVars, reportVars>>

----------------------------------------------------------------------------
(* TeacherDashboard *)

TeacherTabs == {"scan", "overview", "attendance", "profile"}

\* The Tabs of TeacherDashboard: setActiveTab.  The content of the tab that
\* is left is unmounted.
teacherSetActiveTab(tab) ==
    /\ TeacherMounted
    /\ tab # activeTab
    /\ activeTab' = tab
    /\ IF activeTab = "scan" THEN ScannerUnmount ELSE UNCHANGED <<scanVars, cameraVars>>
    /\ IF activeTab = "profile" THEN ProfileUnmount
       ELSE UNCHANGED profileVars
    /\ event' = [op |-> "setActiveTab", tab |-> tab]
    /\ UNCHANGED <<currentUser, currentView, loginError, storeVars, now, regVars,
                   mgmtVars, reportVars>>

----------------------------------------------------------------------------
(* CombinedQRScanner: the camera *)

RECURSIVE OrphanLoad(_)
\* The getUserMedia calls and restarts outstanding for instances that are gone.
OrphanLoad(q) ==
    IF q = <<>> THEN 0
    ELSE Head(q).pending + Len(Head(q).restarts) + OrphanLoad(Tail(q))

\* Everything the camera has outstanding or live.
CameraLoad == cameraPending + Len(restartTimers) + liveStreams + OrphanLoad(orphans)

\* startCamera up to the await of getUserMedia.  The Start Camera button is
\* shown while isScanning is false.
startCamera ==
    /\ ScannerMounted
    /\ ~isScanning
    /\ CameraLoad < MaxPending
    /\ cameraPending' = cameraPending + 1
    /\ event' = [op |-> "startCamera"]
    /\ UNCHANGED <<sessionVars, storeVars, now, regVars, scanVars, profileVars, mgmtVars, reportVars,
                   isScanning, stream, scanInterval, hasPermission, liveStreams,
                   restartTimers, orphans>>

\* startCamera after getUserMedia resolved: setStream, setHasPermission(true),
\* setIsScanning(true), startScanningLoop.
cameraGranted ==
    /\ ScannerMounted
    /\ cameraPending > 0
    /\ cameraPending' = cameraPending - 1
    /\ liveStreams' = liveStreams + 1
    /\ stream' = 1
    /\ hasPermission' = "true"
    /\ isScanning' = TRUE
    /\ scanInterval' = TRUE
    /\ event' = [op |-> "cameraGranted"]
    /\ UNCHANGED <<sessionVars, storeVars, now, regVars, scanVars, profileVars, mgmtVars, reportVars,
                   restartTimers, orphans>>

\* startCamera after getUserMedia rejected: setHasPermission(false).
cameraDenied ==
    /\ ScannerMounted
    /\ cameraPending > 0
    /\ cameraPending' = cameraPending - 1
    /\ hasPermission' = "false"
    /\ event' = [op |-> "cameraDenied"]
    /\ UNCHANGED <<sessionVars, storeVars, now, regVars, scanVars, profileVars, mgmtVars, reportVars,
                   isScanning, stream, scanInterval, liveStreams, restartTimers, orphans>>

\* stopCamera, from the Stop Camera button, shown while isScanning.
stopCamera ==
    /\ ScannerMounted
    /\ isScanning
    /\ IF stream # 0
       THEN liveStreams' = liveStreams - 1 /\ stream' = 0
       ELSE UNCHANGED <<liveStreams, stream>>
    /\ scanInterval' = FALSE
    /\ isScanning' = FALSE
    /\ scanResult' = NoResult
    /\ event' = [op |-> "stopCamera"]
    /\ UNCHANGED <<sessionVars, storeVars, now, regVars, profileVars, mgmtVars, reportVars, hasPermission,
                   cameraPending, lastScanTime, manualError, clearTimers, evalLog,
                   restartTimers, orphans>>

\* switchCamera, from the Switch Camera button, shown while isScanning:
\* stopCamera, then startCamera after SwitchDelayMs.
switchCamera ==
    /\ ScannerMounted
    /\ isScanning
    /\ IF stream # 0
       THEN liveStreams' = liveStreams - 1 /\ stream' = 0
       ELSE UNCHANGED <<liveStreams, stream>>
    /\ scanInterval' = FALSE
    /\ isScanning' = FALSE
    /\ scanResult' = NoResult
    /\ restartTimers' = Append(restartTimers, now + SwitchDelayMs)
    /\ event' = [op |-> "switchCamera"]
    /\ UNCHANGED <<sessionVars, storeVars, now, regVars, profileVars, mgmtVars, reportVars, hasPermission,
                   cameraPending, lastScanTime, manualError, clearTimers, evalLog, orphans>>

\* The setTimeout callback of switchCamera: startCamera up to its await.
restartCamera ==
    /\ ScannerMounted
    /\ restartTimers # <<>>
    /\ Head(restartTimers) <= now
    /\ restartTimers' = Tail(restartTimers)
    /\ cameraPending' = cameraPending + 1
    /\ event' = [op |-> "restartCamera"]
    /\ UNCHANGED <<sessionVars, storeVars, now, regVars, scanVars, profileVars, mgmtVars, reportVars,
                   isScanning, stream, scanInterval, hasPermission, liveStreams, orphans>>

\* The entries of orphans with something outstanding or scheduled.
ActiveOrphans(q) ==
    SeqFilter(q, {o \in Range(q) : o.pending > 0 \/ o.restarts # <<>> \/ o.interval})

\* The setTimeout callback of switchCamera, for an instance that is gone.
orphanRestart(i) ==
    /\ i \in 1..Len(orphans)
    /\ orphans[i].restarts # <<>>
    /\ Head(orphans[i].restarts) <= now
    /\ orphans' = [orphans EXCEPT ![i].restarts = Tail(@), ![i].pending = @ + 1]
    /\ event' = [op |-> "orphanRestart"]
    /\ UNCHANGED <<sessionVars, storeVars, now, regVars, scanVars, profileVars, mgmtVars, reportVars,
                   isScanning, stream, scanInterval, hasPermission, cameraPending,
                   liveStreams, restartTimers>>

\* startCamera after getUserMedia resolved, for an instance that is gone:
\* the state setters do nothing, the stream stays live, and
\* startScanningLoop schedules an interval in the ref of that instance.
orphanGranted(i) ==
    /\ i \in 1..Len(orphans)
    /\ orphans[i].pending > 0
    /\ orphans' = [orphans EXCEPT ![i].pending = @ - 1, ![i].interval = TRUE]
    /\ liveStreams' = liveStreams + 1
    /\ event' = [op |-> "orphanGranted"]
    /\ UNCHANGED <<sessionVars, storeVars, now, regVars, scanVars, profileVars, mgmtVars, reportVars,
                   isScanning, stream, scanInterval, hasPermission, cameraPending,
                   restartTimers>>

\* startCamera after getUserMedia rejected, for an instance that is gone.
orphanDenied(i) ==
    /\ i \in 1..Len(orphans)
    /\ orphans[i].pending > 0
    /\ orphans' = ActiveOrphans([orphans EXCEPT ![i].pending = @ - 1])
    /\ event' = [op |-> "orphanDenied"]
    /\ UNCHANGED <<sessionVars, storeVars, now, regVars, scanVars, profileVars, mgmtVars, reportVars,
                   isScanning, stream, scanInterval, hasPermission, cameraPending,
                   liveStreams, restartTimers>>

----------------------------------------------------------------------------
(* CombinedQRScanner: evaluation of a candidate code *)

\* A guard of half the window: the variant C3 must tell apart.
InCooldownHalved(t, last) == 2 * (t - last) < CooldownMs

\* The duplicate-scan guard of handleScan.
InCooldown(t, last) == t - last < CooldownMs

\* A lookup that ignores letter case: the variant C2 must tell apart.
findStudentIgnoringCase(studs, qrCode) ==
    FindIndex(studs, {s \in Range(studs) : toUpperCase(s.qrCode) = toUpperCase(trim(qrCode))})

\* students.find(s => s.qrCode === qrCode.trim()), as an index, 0 for undefined.
findStudent(studs, qrCode) ==
    FindIndex(studs, {s \in Range(studs) : s.qrCode = trim(qrCode)})

\* markAttendance putting the new record first: the variant C17 must tell apart.
markAttendancePrepending(records, studentId, studentName, markedBy, t) ==
    <<[id |-> NewId(t), studentId |-> studentId, studentName |-> studentName,
       date |-> DateOf(t), time |-> TimeOf(t), status |-> "present",
       markedBy |-> markedBy]>> \o records

\* App.markAttendance: the records after the call at clock reading t.
markAttendance(records, studentId, studentName, markedBy, t) ==
    Append(records,
           [id |-> NewId(t), studentId |-> studentId, studentName |-> studentName,
            date |-> DateOf(t), time |-> TimeOf(t), status |-> "present",
            markedBy |-> markedBy])

\* A markedBy prop that carries the name of the session: the variant C23 must
\* tell apart.
markedByName == currentUser.name

\* The markedBy prop TeacherDashboard hands to the scanner: user.email.
markedBy == currentUser.email

\* handleScan with a suppressed call restarting the cooldown: the variant C24
\* must tell apart.
handleScanRestarting(qrCode) ==
    /\ evalLog' = [last |-> now,
                   accepted |-> IF InCooldown(now, lastScanTime) THEN evalLog.accepted
                                ELSE now]
    /\ IF InCooldown(now, lastScanTime)
       THEN /\ lastScanTime' = now
            /\ UNCHANGED <<scanResult, clearTimers, attendanceRecords>>
       ELSE /\ lastScanTime' = now
            /\ LET i == findStudent(students, qrCode)
               IN  IF i # 0
                   THEN /\ Len(attendanceRecords) < MaxRecords
                        /\ attendanceRecords' =
                              markAttendance(attendanceRecords, students[i].id,
                                             students[i].name, markedBy, now)
                        /\ scanResult' = [shown |-> TRUE, success |-> TRUE,
                                          student |-> students[i]]
                   ELSE /\ scanResult' = [shown |-> TRUE, success |-> FALSE,
                                          student |-> NoStudent]
                        /\ UNCHANGED attendanceRecords
            /\ clearTimers' = Append(clearTimers, now + ResultDisplayMs)

\* CombinedQRScanner.handleScan.
handleScan(qrCode) ==
    /\ evalLog' = [last |-> now,
                   accepted |-> IF InCooldown(now, lastScanTime) THEN evalLog.accepted
                                ELSE now]
    /\ IF InCooldown(now, lastScanTime)
       THEN UNCHANGED <<lastScanTime, scanResult, clearTimers, attendanceRecords>>
       ELSE /\ lastScanTime' = now
            /\ LET i == findStudent(students, qrCode)
               IN  IF i # 0
                   THEN /\ Len(attendanceRecords) < MaxRecords
                        /\ attendanceRecords' =
                              markAttendance(attendanceRecords, students[i].id,
                                             students[i].name, markedBy, now)
                        /\ scanResult' = [shown |-> TRUE, success |-> TRUE,
                                          student |-> students[i]]
                   ELSE /\ scanResult' = [shown |-> TRUE, success |-> FALSE,
                                          student |-> NoStudent]
                        /\ UNCHANGED attendanceRecords
            /\ clearTimers' = Append(clearTimers, now + ResultDisplayMs)

\* CombinedQRScanner.handleManualSubmit
handleManualSubmit(manualCode) ==
    /\ ScannerMounted
    /\ IF trim(manualCode) = ""
       THEN /\ manualError' = "Please enter a QR code"
            /\ event' = [op |-> "handleManualSubmit", manualCode |-> manualCode]
            /\ UNCHANGED <<lastScanTime, scanResult, clearTimers, evalLog,
                           attendanceRecords>>
       ELSE /\ manualError' = ""
            /\ handleScan(manualCode)
            /\ event' = [op |-> "handleScan", qrCode |-> manualCode]
    /\ UNCHANGED <<sessionVars, students, teachers, now, regVars, cameraVars, profileVars, mgmtVars, reportVars>>

\* CombinedQRScanner.handleVideoClick: the simulated scan of one of the first
\* three students, chosen at random.
handleVideoClick ==
    /\ ScannerMounted
    /\ isScanning
    /\ Len(students) > 0
    /\ \E k \in 1..(IF Len(students) < TapPool THEN Len(students) ELSE TapPool) :
          /\ handleScan(students[k].qrCode)
          /\ event' = [op |-> "handleScan", qrCode |-> students[k].qrCode]
    /\ UNCHANGED <<sessionVars, students, teachers, now, regVars, cameraVars,
                   profileVars, mgmtVars, reportVars, manualError>>

\* The setTimeout callback of handleScan: setScanResult(null).
ClearResultTimeout ==
    /\ ScannerMounted
    /\ clearTimers # <<>>
    /\ Head(clearTimers) <= now
    /\ scanResult' = NoResult
    /\ clearTimers' = Tail(clearTimers)
    /\ event' = [op |-> "ClearResultTimeout"]
    /\ UNCHANGED <<sessionVars, storeVars, now, regVars, cameraVars, profileVars, mgmtVars,
                   reportVars, lastScanTime, manualError, evalLog>>

----------------------------------------------------------------------------
(* TeacherProfile *)

\* The Dialog's onOpenChange(true), from the Change Password button.
openPasswordDialog ==
    /\ ProfileMounted
    /\ ~isPasswordDialogOpen
    /\ isPasswordDialogOpen' = TRUE
    /\ passwordErrors' = NoPwdErrors
    /\ event' = [op |-> "openPasswordDialog"]
    /\ UNCHANGED <<sessionVars, storeVars, now, regVars, scanVars, cameraVars,
                   pwdLoading, pwdTimers, mgmtVars, reportVars>>

\* The Dialog's onOpenChange(false): Escape, the overlay, the close button.
closePasswordDialog ==
    /\ ProfileMounted
    /\ isPasswordDialogOpen
    /\ isPasswordDialogOpen' = FALSE
    /\ event' = [op |-> "closePasswordDialog"]
    /\ UNCHANGED <<sessionVars, storeVars, now, regVars, scanVars, cameraVars,
                   passwordErrors, pwdLoading, pwdTimers, mgmtVars, reportVars>>

\* A check of the current password that accepts any non-empty text: the
\* variant C8 must tell apart.
currentPasswordErrorLax(passwordForm, teacher) ==
    IF passwordForm.currentPassword = "" THEN "Current password is required" ELSE ""

\* TeacherProfile.validatePasswordForm: the error of the current password
currentPasswordError(passwordForm, teacher) ==
    IF passwordForm.currentPassword = "" THEN "Current password is required"
    ELSE IF passwordForm.currentPassword # teacher.password
         THEN "Current password is incorrect"
         ELSE ""

\* TeacherProfile.validatePasswordForm: newErrors, "" for a field without one
validatePasswordForm(passwordForm, teacher) ==
    [f \in PwdFields |->
        CASE f = "currentPassword" -> currentPasswordError(passwordForm, teacher)
          [] f = "newPassword" ->
                IF passwordForm.newPassword = "" THEN "New password is required"
                ELSE IF Len(passwordForm.newPassword) < MinPasswordLength
                     THEN "Password must be at least 6 characters"
                     ELSE IF passwordForm.newPassword = teacher.password
                          THEN "New password must be different from current password"
                          ELSE ""
          [] f = "confirmPassword" ->
                IF passwordForm.confirmPassword = ""
                THEN "Please confirm your new password"
                ELSE IF passwordForm.newPassword # passwordForm.confirmPassword
                     THEN "Passwords do not match"
                     ELSE ""]

\* TeacherProfile.handlePasswordChange, up to the setTimeout.  The submit
\* button is disabled while isLoading.
handlePasswordChange(passwordForm) ==
    /\ ProfileMounted
    /\ isPasswordDialogOpen
    /\ ~pwdLoading
    /\ LET teacher == teachers[CurrentTeacherIndex]
           newErrors == validatePasswordForm(passwordForm, teacher)
       IN  /\ passwordErrors' = newErrors
           /\ IF newErrors = NoPwdErrors
              THEN /\ Len(pwdTimers) < MaxPending
                   /\ pwdLoading' = TRUE
                   /\ pwdTimers' = Append(pwdTimers,
                         [due |-> now + PasswordDelayMs, teacherId |-> teacher.id,
                          newPassword |-> passwordForm.newPassword, live |-> TRUE])
              ELSE UNCHANGED <<pwdLoading, pwdTimers>>
           /\ event' = [op |-> "handlePasswordChange", passwordForm |-> passwordForm,
                        teacher |-> teacher]
    /\ UNCHANGED <<sessionVars, storeVars, now, regVars, scanVars, cameraVars,
                   isPasswordDialogOpen, mgmtVars, reportVars>>

\* A change that reaches every teacher: the variant C9 must tell apart.
changeEveryTeacherPassword(teachs, teacherId, newPassword) ==
    [i \in 1..Len(teachs) |->
        [teachs[i] EXCEPT !.password = newPassword, !.isDefaultPassword = FALSE]]

\* App.changeTeacherPassword
changeTeacherPassword(teachs, teacherId, newPassword) ==
    [i \in 1..Len(teachs) |->
        IF teachs[i].id = teacherId
        THEN [teachs[i] EXCEPT !.password = newPassword, !.isDefaultPassword = FALSE]
        ELSE teachs[i]]

\* The setTimeout callback of handlePasswordChange.
PasswordTimeout ==
    /\ pwdTimers # <<>>
    /\ Head(pwdTimers).due <= now
    /\ teachers' = changeTeacherPassword(teachers, Head(pwdTimers).teacherId,
                                         Head(pwdTimers).newPassword)
    /\ pwdTimers' = Tail(pwdTimers)
    /\ IF Head(pwdTimers).live
       THEN isPasswordDialogOpen' = FALSE /\ pwdLoading' = FALSE
       ELSE UNCHANGED <<isPasswordDialogOpen, pwdLoading>>
    /\ event' = [op |-> "PasswordTimeout", teacherId |-> Head(pwdTimers).teacherId,
                 newPassword |-> Head(pwdTimers).newPassword]
    /\ UNCHANGED <<sessionVars, students, attendanceRecords, now, regVars, scanVars,
                   cameraVars, passwordErrors, mgmtVars, reportVars>>

----------------------------------------------------------------------------
(* The clock *)

TimerDue ==
    \/ \E i \in 1..Len(regTimers) : regTimers[i].due <= now
    \/ \E i \in 1..Len(pwdTimers) : pwdTimers[i].due <= now
    \/ \E i \in 1..Len(clearTimers) : clearTimers[i] <= now
    \/ \E i \in 1..Len(restartTimers) : restartTimers[i] <= now
    \/ \E i \in 1..Len(orphans) : \E k \in 1..Len(orphans[i].restarts) :
          orphans[i].restarts[k] <= now

\* Time passes.  A callback that is due runs before the clock moves on.
Tick ==
    /\ ~TimerDue
    /\ now' = now + TickMs
    /\ event' = [op |-> "Tick"]
    /\ UNCHANGED <<sessionVars, storeVars, regVars, scanVars, cameraVars, profileVars, mgmtVars, reportVars>>

----------------------------------------------------------------------------
(* Registration and student removal *)

\* A form that passes validation, and the forms that differ from it in one
\* field or in all of them.
GoodForm ==
    [name |-> "Ana Li", email |-> "ana@x.io", confirmEmail |-> "ana@x.io",
     schoolId |-> "stu2024010", class |-> "10A"]
OtherGoodForm ==
    [name |-> " B\t C ", email |-> "b.c@x.io", confirmEmail |-> "b.c@x.io",
     schoolId |-> " STU99", class |-> "9B"]
BadNames == {"", " \t"}
BadEmailPairs == { <<"", "">>, <<"ana", "ana">>, <<"ana@x", "ana@x">>,
                   <<"ana@x.io", "anb@x.io">>, <<"ana@x.io", "">> }
BadSchoolIds == {"", "      ", "stu1", "stu2024001"}

RegForms ==
    {GoodForm, OtherGoodForm}
    \cup {[GoodForm EXCEPT !.name = n] : n \in BadNames}
    \cup {[GoodForm EXCEPT !.email = e[1], !.confirmEmail = e[2]] : e \in BadEmailPairs}
    \cup {[GoodForm EXCEPT !.schoolId = i] : i \in BadSchoolIds}
    \cup {[GoodForm EXCEPT !.class = ""]}
    \cup {[name |-> "", email |-> "ana", confirmEmail |-> "", schoolId |-> "stu1",
           class |-> ""]}

StudentEmails == {"john.doe@student.edu", GoodForm.email, "nobody@x.io"}

NextReg ==
    \/ \E f \in RegForms : now + RegistrationDelayMs <= ClockAfter(RegTicks) /\ handleSubmit(f)
    \/ RegistrationTimeout
    \/ handleShowRegister
    \/ handleShowLogin
    \/ handleLogin("admin", AdminEmail, AdminPassword)
    \/ \E e \in StudentEmails : \E pw \in {StudentPassword, "student124"} :
          handleLogin("student", e, pw)
    \/ handleLogout
    \/ adminSetActiveTab("students")
    \/ \E s \in Range(students) : deleteStudent(s.id)
    \/ now < ClockAfter(RegTicks) /\ Tick

SpecReg == Init /\ [][NextReg]_vars

FairSpecReg ==
    /\ SpecReg
    /\ WF_vars(RegistrationTimeout)
    /\ WF_vars(now < ClockAfter(RegTicks) /\ Tick)

----------------------------------------------------------------------------
(* Scanning, with the registrations that put students in the store *)

TeacherEmail == "teacher@school.edu"

\* The code the second good form registers, which starts with a space.
SpacedCode == " STU99--B-C-"

ManualCodes ==
    {"", "STU2024001-JOHN-DOE ", "stu2024001-john-doe", SpacedCode, SpacedCode \o " "}

NextScan ==
    \/ handleShowRegister
    \/ handleShowLogin
    \/ /\ regTimers = <<>>
       /\ Len(students) = Len(InitialStudents)
       /\ now + RegistrationDelayMs <= ClockAfter(RegTicks)
       /\ handleSubmit(OtherGoodForm)
    \/ RegistrationTimeout
    \/ handleLogin("teacher", TeacherEmail, DefaultTeacherPassword)
    \/ handleLogout
    \/ \E tab \in {"scan", "overview"} : teacherSetActiveTab(tab)
    \/ CameraLoad = 0 /\ startCamera
    \/ cameraGranted
    \/ cameraDenied
    \/ \E i \in 1..Len(orphans) : orphanGranted(i)
    \/ \E i \in 1..Len(orphans) : orphanDenied(i)
    \/ stopCamera
    \/ handleVideoClick
    \/ \E c \in ManualCodes : handleManualSubmit(c)
    \/ ClearResultTimeout
    \/ now < ClockAfter(ScanTicks) /\ Tick

SpecScan == Init /\ [][NextScan]_vars

----------------------------------------------------------------------------
(* Marking attendance, with the removal of students and the reports of the  *)
(* administrator                                                            *)

AttendCodes == {"STU2024001-JOHN-DOE", "STU2024002-JANE-SMITH", "STU2024009-NO-ONE"}
ReportDates == {InitialRecordDay, InitialRecordDay + 1}
ReportClasses == {"all", "10A", "10B"}

NextAttend ==
    \/ handleLogin("teacher", TeacherEmail, DefaultTeacherPassword)
    \/ handleLogin("admin", AdminEmail, AdminPassword)
    \/ handleLogout
    \/ \E tab \in {"students", "reports"} : adminSetActiveTab(tab)
    \/ \E s \in Range(students) : deleteStudent(s.id)
    \/ \E d \in ReportDates : setSelectedDate(d)
    \/ \E c \in ReportClasses : setSelectedClass(c)
    \/ \E c \in AttendCodes : handleManualSubmit(c)
    \/ ClearResultTimeout
    \/ now < ClockAfter(AttendTicks) /\ Tick

SpecAttend == Init /\ [][NextAttend]_vars

----------------------------------------------------------------------------
(* Changing a password, with the addition of a second teacher *)

SecondTeacherEmail == "t2@school.edu"
SecondTeacherForm == [name |-> "Ann Second", email |-> SecondTeacherEmail, subject |-> "Art"]

NewPasswords == {"secret1", "secret22"}

PwdForms ==
    {[currentPassword |-> c, newPassword |-> n, confirmPassword |-> n] :
        c \in {DefaultTeacherPassword, "secret1"}, n \in NewPasswords}
    \cup
    {[currentPassword |-> DefaultTeacherPassword, newPassword |-> "secret1",
      confirmPassword |-> "secret2"],
     [currentPassword |-> DefaultTeacherPassword, newPassword |-> "abc",
      confirmPassword |-> "abc"],
     [currentPassword |-> DefaultTeacherPassword, newPassword |-> DefaultTeacherPassword,
      confirmPassword |-> DefaultTeacherPassword],
     [currentPassword |-> "", newPassword |-> "secret1", confirmPassword |-> "secret1"],
     [currentPassword |-> "wrong", newPassword |-> "", confirmPassword |-> ""]}

NextPwd ==
    \/ handleLogin("admin", AdminEmail, AdminPassword)
    \/ adminSetActiveTab("teachers")
    \/ openAddDialog
    \/ \E f \in {SecondTeacherForm, [SecondTeacherForm EXCEPT !.email = TeacherEmail]} :
          handleAddTeacher(f)
    \/ \E e \in {TeacherEmail, SecondTeacherEmail} :
          \E pw \in {DefaultTeacherPassword, "secret1"} : handleLogin("teacher", e, pw)
    \/ handleLogout
    \/ \E tab \in {"scan", "profile"} : teacherSetActiveTab(tab)
    \/ openPasswordDialog
    \/ closePasswordDialog
    \/ \E f \in PwdForms :
          now + PasswordDelayMs <= ClockAfter(PwdTicks) /\ handlePasswordChange(f)
    \/ PasswordTimeout
    \/ now < ClockAfter(PwdTicks) /\ Tick

SpecPwd == Init /\ [][NextPwd]_vars

FairSpecPwd ==
    /\ SpecPwd
    /\ WF_vars(PasswordTimeout)
    /\ WF_vars(now < ClockAfter(PwdTicks) /\ Tick)

----------------------------------------------------------------------------
(* The admin's management of teachers, with the teachers' own changes of    *)
(* password                                                                 *)

MgmtForms ==
    {SecondTeacherForm,
     [SecondTeacherForm EXCEPT !.email = TeacherEmail],
     [name |-> " ", email |-> "t2 @school", subject |-> ""]}

MgmtPwdForms ==
    {[currentPassword |-> DefaultTeacherPassword, newPassword |-> "secret1",
      confirmPassword |-> "secret1"],
     [currentPassword |-> "secret1", newPassword |-> DefaultTeacherPassword,
      confirmPassword |-> DefaultTeacherPassword]}

NextMgmt ==
    \/ handleLogin("admin", AdminEmail, AdminPassword)
    \/ adminSetActiveTab("teachers")
    \/ openAddDialog
    \/ closeAddDialog
    \/ \E i \in 1..Len(teachers) : openEditDialog(i)
    \/ closeEditDialog
    \/ \E f \in MgmtForms : handleAddTeacher(f)
    \/ \E f \in MgmtForms : handleEditTeacher(f)
    \/ \E i \in 1..Len(teachers) : resetTeacherPassword(i)
    \/ \E t \in Range(teachers) : deleteTeacher(t.id)
    \/ \E e \in {TeacherEmail, SecondTeacherEmail} :
          \E pw \in {DefaultTeacherPassword, "secret1"} : handleLogin("teacher", e, pw)
    \/ handleLogout
    \/ teacherSetActiveTab("profile")
    \/ openPasswordDialog
    \/ \E f \in MgmtPwdForms :
          now + PasswordDelayMs <= ClockAfter(MgmtTicks) /\ handlePasswordChange(f)
    \/ PasswordTimeout
    \/ now < ClockAfter(MgmtTicks) /\ Tick

SpecMgmt == Init /\ [][NextMgmt]_vars

----------------------------------------------------------------------------
(* Successive password changes of one teacher, with the administrator's reset *)

NextFlag ==
    \/ handleLogin("teacher", TeacherEmail, DefaultTeacherPassword)
    \/ handleLogin("teacher", TeacherEmail, "secret1")
    \/ handleLogin("admin", AdminEmail, AdminPassword)
    \/ handleLogout
    \/ adminSetActiveTab("teachers")
    \/ \E i \in 1..Len(teachers) : resetTeacherPassword(i)
    \/ teacherSetActiveTab("profile")
    \/ openPasswordDialog
    \/ \E f \in MgmtPwdForms :
          now + PasswordDelayMs <= ClockAfter(FlagTicks) /\ handlePasswordChange(f)
    \/ PasswordTimeout
    \/ now < ClockAfter(FlagTicks) /\ Tick

SpecFlag == Init /\ [][NextFlag]_vars

----------------------------------------------------------------------------
(* The camera of the scanner, with the teardown of the scanner *)

NextCamera ==
    \/ handleLogin("teacher", TeacherEmail, DefaultTeacherPassword)
    \/ handleLogout
    \/ \E tab \in {"scan", "overview"} : teacherSetActiveTab(tab)
    \/ startCamera
    \/ cameraGranted
    \/ cameraDenied
    \/ stopCamera
    \/ CameraLoad <= MaxPending /\ switchCamera
    \/ restartCamera
    \/ \E i \in 1..Len(orphans) : orphanRestart(i)
    \/ \E i \in 1..Len(orphans) : orphanGranted(i)
    \/ \E i \in 1..Len(orphans) : orphanDenied(i)
    \/ now < ClockAfter(CamTicks) /\ Tick

SpecCamera == Init /\ [][NextCamera]_vars

----------------------------------------------------------------------------
(* The roll: registrations, scans and removals in one run *)

RollCodes == {"STU2024001-JOHN-DOE", "STU2024010-ANA-LI"}

\* A good form with the e-mail of a student that is in the store.
RollForm ==
    [GoodForm EXCEPT !.email = "john.doe@student.edu",
                     !.confirmEmail = "john.doe@student.edu"]

NextRoll ==
    \/ handleShowRegister
    \/ handleShowLogin
    \/ /\ regTimers = <<>>
       /\ Len(students) <= Len(InitialStudents)
       /\ now + RegistrationDelayMs <= ClockAfter(RollTicks)
       /\ handleSubmit(RollForm)
    \/ RegistrationTimeout
    \/ handleLogin("teacher", TeacherEmail, DefaultTeacherPassword)
    \/ handleLogin("admin", AdminEmail, AdminPassword)
    \/ handleLogin("student", RollForm.email, StudentPassword)
    \/ handleLogout
    \/ \E tab \in {"scan", "overview"} : teacherSetActiveTab(tab)
    \/ adminSetActiveTab("students")
    \/ \E s \in Range(students) : deleteStudent(s.id)
    \/ \E c \in RollCodes : handleManualSubmit(c)
    \/ now < ClockAfter(RollTicks) /\ Tick

SpecRoll == Init /\ [][NextRoll]_vars

----------------------------------------------------------------------------
(* Registrations whose school identifier or name holds a hyphen *)

CodeForms ==
    {[name |-> "A B", email |-> "a@x.io", confirmEmail |-> "a@x.io",
      schoolId |-> "STU001", class |-> "9B"],
     [name |-> "B", email |-> "b@x.io", confirmEmail |-> "b@x.io",
      schoolId |-> "STU001-A", class |-> "9B"]}

NextCodes ==
    \/ handleShowRegister
    \/ handleShowLogin
    \/ \E f \in CodeForms :
          now + RegistrationDelayMs <= ClockAfter(CodeTicks) /\ handleSubmit(f)
    \/ RegistrationTimeout
    \/ handleLogin("teacher", TeacherEmail, DefaultTeacherPassword)
    \/ handleLogout
    \/ handleManualSubmit("STU001-A-B")
    \/ now < ClockAfter(CodeTicks) /\ Tick

SpecCodes == Init /\ [][NextCodes]_vars

----------------------------------------------------------------------------
(* Claims about registration *)

\* C5: in every reachable state no two students in the store have the same
\* school identifier.
C5_SchoolIdsUnique ==
    \A i \in 1..Len(students) : \A j \in 1..Len(students) :
        i # j => students[i].schoolId # students[j].schoolId

\* The shape local@domain.tld: one "@", no white space, a non-empty local
\* part, and a dot inside the domain that is neither its first nor its last
\* character.
WellShapedEmail(e) ==
    /\ Cardinality({i \in 1..Len(e) : CharAt(e, i) = "@"}) = 1
    /\ \A i \in 1..Len(e) : CharAt(e, i) \notin {" ", "\t"}
    /\ LET at == CHOOSE i \in 1..Len(e) : CharAt(e, i) = "@"
       IN  /\ at > 1
           /\ \E d \in (at + 2)..(Len(e) - 1) : CharAt(e, d) = "."

\* The fields of a submitted form that fail a check of the registration
\* contract, against the students held when it is submitted.
FailingFields(f, studs) ==
    {x \in RegFields :
        \/ x = "name" /\ f.name = ""
        \/ x = "email" /\ (f.email = "" \/ ~WellShapedEmail(f.email))
        \/ x = "confirmEmail" /\ f.confirmEmail # f.email
        \/ x = "schoolId" /\ \/ f.schoolId = ""
                             \/ Len(f.schoolId) < 6
                             \/ \E i \in 1..Len(studs) : studs[i].schoolId = f.schoolId
        \/ x = "class" /\ f.class = ""}

\* C6: when a registration submission fails a validation check, an error is
\* recorded for each failing field, no completion is scheduled, and students,
\* teachers and attendance records are unchanged.
C6_FailedSubmitChangesNothing ==
    [][ (event'.op = "handleSubmit" /\ FailingFields(event'.formData, students) # {})
        => /\ \A x \in FailingFields(event'.formData, students) : regErrors'[x] # ""
           /\ regTimers' = regTimers
           /\ students' = students
           /\ teachers' = teachers
           /\ attendanceRecords' = attendanceRecords ]_vars

\* A submission with several failing fields, one of them a school identifier
\* that is already registered, has been rejected.
C6_Witness ==
    /\ event.op = "handleSubmit"
    /\ event.formData.schoolId = "STU2024001"
    /\ regErrors.schoolId = "This School ID is already registered"
    /\ \E s \in Range(students) : s.schoolId = "STU2024001"

\* The upper-case form of one character.
UpperOf(c) ==
    IF \E i \in 1..26 : CharAt("abcdefghijklmnopqrstuvwxyz", i) = c
    THEN CharAt("ABCDEFGHIJKLMNOPQRSTUVWXYZ",
                CHOOSE i \in 1..26 : CharAt("abcdefghijklmnopqrstuvwxyz", i) = c)
    ELSE c

\* A name with each run of white space replaced by one hyphen, upper-cased:
\* read from the right, a white-space character that follows another one
\* adds nothing.
RECURSIVE HyphenatedUpper(_)
HyphenatedUpper(name) ==
    IF name = "" THEN ""
    ELSE LET n == Len(name)
             rest == SubSeq(name, 1, n - 1)
             c == CharAt(name, n)
         IN  IF c \in {" ", "\t"}
             THEN IF n > 1 /\ CharAt(name, n - 1) \in {" ", "\t"}
                  THEN HyphenatedUpper(rest)
                  ELSE HyphenatedUpper(rest) \o "-"
             ELSE HyphenatedUpper(rest) \o UpperOf(c)

C7_Step ==
    /\ (event'.op = "handleSubmit" /\ regErrors' = NoRegErrors)
         => /\ Len(regTimers') = Len(regTimers) + 1
            /\ regTimers'[Len(regTimers')].formData = event'.formData
            /\ students' = students
    /\ Len(regTimers') < Len(regTimers) => event'.op = "RegistrationTimeout"
    /\ Len(students') > Len(students) => event'.op = "RegistrationTimeout"
    /\ event'.op = "RegistrationTimeout"
         => LET f == Head(regTimers).formData
                st == students'[Len(students')]
            IN  /\ regTimers' = Tail(regTimers)
                /\ Len(students') = Len(students) + 1
                /\ SubSeq(students', 1, Len(students)) = students
                /\ st.name = f.name
                /\ st.email = f.email
                /\ st.class = f.class
                /\ st.schoolId = f.schoolId
                /\ st.qrCode = f.schoolId \o "-" \o HyphenatedUpper(f.name)
                /\ (f.schoolId = "STU2024010" /\ f.name = "Ana Li")
                      => st.qrCode = "STU2024010-ANA-LI"
                /\ currentView' = "login"

\* C7: every registration submission that passes validation schedules one
\* completion, which eventually runs and appends exactly one student carrying
\* the submitted name, e-mail, class and school identifier, with qrCode =
\* schoolId + "-" + the name hyphenated and upper-cased; the students already
\* stored are unchanged and the view returns to login.
C7_RegistrationCompletes ==
    /\ [][C7_Step]_vars
    /\ (regTimers # <<>>) ~> (regTimers = <<>>)

\* The registration of the specification's example has completed.
C7_Witness ==
    /\ event.op = "RegistrationTimeout"
    /\ event.formData.name = "Ana Li"
    /\ students[Len(students)].qrCode = "STU2024010-ANA-LI"
    /\ currentView = "login"

----------------------------------------------------------------------------
(* Claims about scanning *)

Blank == {" ", "\t"}

\* c without its leading and trailing white space
StripSpaces(c) ==
    LET inked == {i \in 1..Len(c) : CharAt(c, i) \notin Blank}
    IN  IF inked = {} THEN ""
        ELSE SubSeq(c, CHOOSE i \in inked : \A j \in inked : i <= j,
                       CHOOSE i \in inked : \A j \in inked : j <= i)

\* The call of handleScan in this step is made at least the cooldown after
\* the previous unsuppressed evaluation of this scanner instance.
AfterCooldown == now - evalLog.accepted >= CooldownMs

\* C1: for every student S in the store, handleScan called with S's code at
\* least 2 seconds after the previous unsuppressed evaluation shows a match
\* with S attached and appends exactly one record, with S's id and name and
\* today's date.
C1_StoredCodeMarksAttendance ==
    [][\A i \in 1..Len(students) :
          (/\ event'.op = "handleScan"
           /\ event'.qrCode = students[i].qrCode
           /\ AfterCooldown)
          => /\ scanResult' = [shown |-> TRUE, success |-> TRUE, student |-> students[i]]
             /\ Len(attendanceRecords') = Len(attendanceRecords) + 1
             /\ SubSeq(attendanceRecords', 1, Len(attendanceRecords)) = attendanceRecords
             /\ LET r == attendanceRecords'[Len(attendanceRecords')]
                IN  /\ r.studentId = students[i].id
                    /\ r.studentName = students[i].name
                    /\ r.date = DateOf(now)]_vars

NoMatchShown == scanResult' = [shown |-> TRUE, success |-> FALSE, student |-> NoStudent]

\* C2 as stated: an unsuppressed handleScan of a candidate that equals no
\* student's code shows NoMatch and leaves records, students and teachers
\* unchanged.
C2_UnequalCandidateNoMatch ==
    [][(/\ event'.op = "handleScan"
        /\ AfterCooldown
        /\ \A s \in Range(students) : s.qrCode # event'.qrCode)
       => /\ NoMatchShown
          /\ UNCHANGED <<attendanceRecords, students, teachers>>]_vars

\* C2: an unsuppressed handleScan of a candidate whose value without leading
\* and trailing white space equals no student's code shows NoMatch and leaves
\* records, students and teachers unchanged.
C2_StrippedUnequalCandidateNoMatch ==
    [][(/\ event'.op = "handleScan"
        /\ AfterCooldown
        /\ \A s \in Range(students) : s.qrCode # StripSpaces(event'.qrCode))
       => /\ NoMatchShown
          /\ UNCHANGED <<attendanceRecords, students, teachers>>]_vars

C2_Witness ==
    /\ event.op = "handleScan"
    /\ evalLog.accepted = now
    /\ \A s \in Range(students) : s.qrCode # StripSpaces(event.qrCode)
    /\ scanResult.shown /\ ~scanResult.success

\* C3 as stated: a handleScan made less than 2 seconds after the previous
\* handleScan of the same scanner instance changes neither the scan result
\* nor the attendance records.
C3_SecondOfAnyTwoSuppressed ==
    [][(event'.op = "handleScan" /\ now - evalLog.last < CooldownMs)
       => UNCHANGED <<scanResult, attendanceRecords>>]_vars

\* C3: a handleScan made less than 2 seconds after the previous unsuppressed
\* handleScan of the same scanner instance changes neither the scan result
\* nor the attendance records, whatever the two candidates are.
C3_SuppressedWithinCooldown ==
    [][(event'.op = "handleScan" /\ ~AfterCooldown)
       => UNCHANGED <<scanResult, attendanceRecords>>]_vars

C3_Witness ==
    /\ event.op = "handleScan"
    /\ evalLog.last = now
    /\ evalLog.accepted < now
    /\ now - evalLog.accepted < CooldownMs
    /\ \E s \in Range(students) : s.qrCode = StripSpaces(event.qrCode)
    /\ scanResult.shown /\ ~scanResult.success

\* C4: the lookup of handleScan gives for every candidate c what it gives for
\* c without its leading and trailing white space, and a student's code
\* followed by a space finds that student.
C4_LookupIgnoresOuterSpace ==
    /\ \A c \in ManualCodes :
          findStudent(students, c) = findStudent(students, StripSpaces(c))
    /\ \A i \in 1..Len(students) :
          LET j == findStudent(students, students[i].qrCode \o " ")
          IN  j # 0 /\ students[j] = students[i]

----------------------------------------------------------------------------
(* Claims about the change of a password *)

\* The teacher of the session: the stored teacher with the session's e-mail.
SessionTeacher == CHOOSE t \in Range(teachers) : t.email = currentUser.email

\* C8: a change-password submission whose current-password field differs
\* from the stored password of the session's teacher changes no teacher
\* record and schedules no delayed change.
C8_WrongCurrentPasswordChangesNothing ==
    [][(/\ event'.op = "handlePasswordChange"
        /\ event'.passwordForm.currentPassword # SessionTeacher.password)
       => /\ teachers' = teachers
          /\ pwdTimers' = pwdTimers]_vars

C8_Witness ==
    /\ event.op = "handlePasswordChange"
    /\ event.passwordForm.currentPassword # ""
    /\ event.passwordForm.currentPassword # event.teacher.password
    /\ Len(event.passwordForm.newPassword) >= MinPasswordLength
    /\ event.passwordForm.newPassword = event.passwordForm.confirmPassword
    /\ passwordErrors.currentPassword # ""

\* The submission just made has the correct current password and the new
\* password p, of at least 6 characters and different from the current one.
SubmittedNew(p) ==
    /\ event.op = "handlePasswordChange"
    /\ event.passwordForm.currentPassword = event.teacher.password
    /\ event.passwordForm.newPassword = p
    /\ Len(p) >= MinPasswordLength
    /\ p # event.teacher.password

\* The delayed change to p has just been made: every stored teacher with the
\* id it was made for has the password p, no longer the default one.
Applied(p) ==
    /\ event.op = "PasswordTimeout"
    /\ event.newPassword = p
    /\ \A t \in Range(teachers) :
          t.id = event.teacherId => t.password = p /\ ~t.isDefaultPassword

\* C9 as stated: a submission with the correct current password and a new
\* password of at least 6 characters that differs from the current one is
\* always followed by the change of the stored password to the new one.
C9_ValidNewPasswordApplied ==
    \A p \in NewPasswords \cup {"abc", DefaultTeacherPassword} : SubmittedNew(p) ~> Applied(p)

\* What a step that submits or applies a change of password does to the
\* teachers: a submission changes none; the delayed change sets the password
\* and clears isDefaultPassword in the records with the submitting teacher's
\* id, and changes no other record.
C9_Step ==
    /\ event'.op = "handlePasswordChange" => teachers' = teachers
    /\ event'.op = "PasswordTimeout" =>
          /\ Len(teachers') = Len(teachers)
          /\ \A i \in 1..Len(teachers) :
                IF teachers[i].id = event'.teacherId
                THEN teachers'[i] = [teachers[i] EXCEPT !.password = event'.newPassword,
                                                        !.isDefaultPassword = FALSE]
                ELSE teachers'[i] = teachers[i]

\* C9: a submission with the correct current password, a new password of at
\* least 6 characters that differs from the current one and a confirmation
\* equal to the new password is followed, after the delay, by the change of
\* the stored password of the submitting teacher to the new password with
\* isDefaultPassword false; no other teacher record changes.
C9_ConfirmedNewPasswordApplied ==
    /\ [][C9_Step]_vars
    /\ \A p \in NewPasswords :
          (SubmittedNew(p) /\ event.passwordForm.confirmPassword = p) ~> Applied(p)

C9_Witness ==
    /\ event.op = "PasswordTimeout"
    /\ Len(teachers) = 2
    /\ \E i, j \in 1..2 :
          /\ teachers[i].id = event.teacherId
          /\ teachers[i].password = event.newPassword
          /\ ~teachers[i].isDefaultPassword
          /\ teachers[j].id # event.teacherId
          /\ teachers[j].isDefaultPassword

----------------------------------------------------------------------------
(* Claims about the removal of a student *)

\* q without its elements that are in gone, in the order of q
Without(q, gone) ==
    LET keptAt == {i \in 1..Len(q) : q[i] \notin gone}
        nth[k \in 0..Len(q)] ==
            IF k = 0 THEN 0
            ELSE CHOOSE i \in keptAt : i > nth[k - 1] /\ \A j \in keptAt : j > nth[k - 1] => i <= j
    IN  [k \in 1..Cardinality(keptAt) |-> q[nth[k]]]

\* C10: deleteStudent(id) removes exactly the students with that id and
\* exactly the attendance records whose studentId is that id; the other
\* students and records stay, in their order, and the teachers are unchanged.
C10_DeleteStudentFrame ==
    [][event'.op = "deleteStudent" =>
          /\ students' = Without(students,
                {x \in Range(students) : x.id = event'.studentId})
          /\ attendanceRecords' = Without(attendanceRecords,
                {r \in Range(attendanceRecords) : r.studentId = event'.studentId})
          /\ teachers' = teachers]_vars

C10_Witness ==
    /\ event.op = "deleteStudent"
    /\ Len(students) >= 2
    /\ Len(attendanceRecords) = 1
    /\ attendanceRecords[1].studentId # event.studentId

----------------------------------------------------------------------------
(* Claims about the teachers *)

\* C11: no two teachers in the store have the same e-mail.
C11_TeacherEmailsUnique ==
    \A i, j \in 1..Len(teachers) : teachers[i].email = teachers[j].email => i = j

\* C12: a login attempt with role teacher creates a session iff some stored
\* teacher has the submitted e-mail and the submitted password; the session
\* then carries such a teacher's id, name and e-mail with role teacher;
\* otherwise there is no session and the teacher error message is set.
C12_TeacherLoginIffCredentialsMatch ==
    [][(event'.op = "handleLogin" /\ event'.role = "teacher")
       => LET matching == {t \in Range(teachers) :
                              t.email = event'.email /\ t.password = event'.password}
          IN  IF matching # {}
              THEN \E t \in matching :
                      currentUser' = [id |-> t.id, name |-> t.name, email |-> t.email,
                                      role |-> "teacher", qrCode |-> ""]
              ELSE /\ currentUser' = NoUser
                   /\ loginError' = "Invalid teacher email or password"]_vars

----------------------------------------------------------------------------
(* Claims about the student's session *)

\* C13: a login attempt with role student creates a session iff some stored
\* student has the submitted e-mail and the submitted password is
\* 'student123'; the session then carries the id, name, e-mail and code of a
\* student with that e-mail; otherwise there is no session; the store is
\* unchanged.
C13_StudentLoginIffEmailAndConstant ==
    [][(event'.op = "handleLogin" /\ event'.role = "student")
       => LET matching == {x \in Range(students) : x.email = event'.email}
          IN  /\ IF matching # {} /\ event'.password = "student123"
                 THEN \E x \in matching :
                         currentUser' = [id |-> x.id, name |-> x.name, email |-> x.email,
                                         role |-> "student", qrCode |-> x.qrCode]
                 ELSE currentUser' = NoUser
              /\ UNCHANGED <<students, teachers, attendanceRecords>>]_vars

C13_Witness ==
    /\ event.op = "handleLogin"
    /\ event.role = "student"
    /\ currentUser.role = "student"
    /\ currentUser.email = GoodForm.email
    /\ currentUser.qrCode = "STU2024010-ANA-LI"

\* C16: while a student session is active, the history handed to the student
\* dashboard holds exactly the stored records whose studentId is the
\* session's id.
C16_HistoryIsOwnRecords ==
    StudentMounted =>
        /\ \A r \in Range(attendanceRecords) :
              r.studentId = currentUser.id => r \in Range(StudentHistory)
        /\ \A r \in Range(StudentHistory) :
              r \in Range(attendanceRecords) /\ r.studentId = currentUser.id

C16_Witness ==
    /\ StudentMounted
    /\ Len(StudentHistory) = 1
    /\ Len(attendanceRecords) = 2

----------------------------------------------------------------------------
(* Claims about the attendance records *)

\* C14: in every reachable state the store holds at most one attendance
\* record for any pair of a student id and a date.
C14_OneRecordPerStudentAndDate ==
    \A i, j \in 1..Len(attendanceRecords) :
        (/\ attendanceRecords[i].studentId = attendanceRecords[j].studentId
         /\ attendanceRecords[i].date = attendanceRecords[j].date) => i = j

\* C17: attendance records are append-only.  Every step leaves the records
\* as they are, or appends one record whose status is 'present', or is a
\* deleteStudent that removes exactly the records of the deleted student and
\* keeps the others, unchanged, in their order; every stored record has
\* status 'present'.
C17_Step ==
    LET n == Len(attendanceRecords)
    IN  \/ attendanceRecords' = attendanceRecords
        \/ /\ Len(attendanceRecords') = n + 1
           /\ SubSeq(attendanceRecords', 1, n) = attendanceRecords
           /\ attendanceRecords'[n + 1].status = "present"
        \/ /\ event'.op = "deleteStudent"
           /\ attendanceRecords' =
                 Without(attendanceRecords,
                         {r \in Range(attendanceRecords) : r.studentId = event'.studentId})

C17_RecordsAppendOnly ==
    /\ \A r \in Range(attendanceRecords) : r.status = "present"
    /\ [][C17_Step]_vars

C17_Witness ==
    /\ event.op = "deleteStudent"
    /\ event.studentId = "1"
    /\ Len(attendanceRecords) = 2
    /\ attendanceRecords[1].id = "2"
    /\ attendanceRecords[2].studentId = "2"

----------------------------------------------------------------------------
(* Claims about the teachers' passwords *)

\* The step is the change-password action of the teacher with this id.
OwnPasswordChange(id) == event'.op = "PasswordTimeout" /\ event'.teacherId = id

\* C15: no step other than a teacher's own change-password action changes the
\* stored password or the isDefaultPassword flag of a teacher that exists
\* before and after the step.
C15_OnlyOwnChangeTouchesPassword ==
    [][\A old \in Range(teachers) : \A new \in Range(teachers') :
          (old.id = new.id /\ ~OwnPasswordChange(old.id))
          => (new.password = old.password
              /\ new.isDefaultPassword = old.isDefaultPassword)]_vars

\* C18: for every teacher in every reachable state, isDefaultPassword is true
\* exactly when the stored password is 'teacher123'.
C18_FlagIffDefaultPassword ==
    \A t \in Range(teachers) : t.isDefaultPassword <=> (t.password = "teacher123")

----------------------------------------------------------------------------
(* Claims about the display of a result *)

\* C19: a result produced by an evaluation at time t stays displayed until
\* t + 3 seconds: while the scanner stays mounted, no step other than Stop
\* Camera clears a displayed result sooner than 3 seconds after the
\* evaluation that produced it.
C19_ResultShownThreeSeconds ==
    [][(/\ scanResult.shown
        /\ ~scanResult'.shown
        /\ ScannerMounted'
        /\ event'.op # "stopCamera")
       => now' >= evalLog.accepted + ResultDisplayMs]_vars

----------------------------------------------------------------------------
(* Claims about the attendance report *)

\* The store has a record of this student for the selected date.
HasRecordOnSelectedDate(student) ==
    \E r \in Range(attendanceRecords) :
        r.studentId = student.id /\ r.date = selectedDate

\* The positions of the students that pass the class filter.
PassingFilter ==
    {i \in 1..Len(students) : selectedClass = "all" \/ students[i].class = selectedClass}

\* The decimal numeral of t tenths.
TenthsNumeral(t) == ToString(t \div 10) \o "." \o ToString(t % 10)

C20_ReportState ==
    ReportsMounted =>
        LET total == Cardinality(PassingFilter)
            present == Cardinality({i \in PassingFilter : HasRecordOnSelectedDate(students[i])})
        IN  /\ Len(filteredStudents) = total
            /\ \A i \in PassingFilter : students[i] \in Range(filteredStudents)
            /\ \A s \in Range(filteredStudents) :
                  StatusCell(s) = "Present" <=> HasRecordOnSelectedDate(s)
            /\ presentCount = present
            /\ presentCount <= total
            /\ IF total = 0
               THEN attendanceRate = "0"
               ELSE \E t \in {(1000 * present) \div total, (1000 * present) \div total + 1} :
                       /\ attendanceRate = TenthsNumeral(t)
                       /\ 2 * (t * total - 1000 * present) <= total
                       /\ 2 * (1000 * present - t * total) <= total

\* C20: in the attendance report for the selected date and class filter, a
\* student is shown Present iff the store has a record with the student's id
\* and that date; the present count is the number of such students among
\* those passing the class filter and never exceeds the filtered total; the
\* rate is present/total*100 (shown with one decimal), '0' when no student
\* passes the filter; choosing a date or a class changes nothing in the store.
C20_ReportProjection ==
    /\ []C20_ReportState
    /\ [][event'.op \in {"setSelectedDate", "setSelectedClass"}
          => UNCHANGED <<students, teachers, attendanceRecords>>]_vars

C20_Witness ==
    /\ ReportsMounted
    /\ event.op = "setSelectedClass"
    /\ selectedClass = "10A"
    /\ selectedDate = InitialRecordDay + 1
    /\ Len(filteredStudents) = 2
    /\ presentCount = 1
    /\ attendanceRate = "50.0"
    /\ Len(attendanceRecords) = 3

----------------------------------------------------------------------------
(* Claims about the camera *)

\* The number of polling intervals scheduled, by the mounted scanner and by
\* scanners that are gone.
ScheduledIntervals ==
    (IF scanInterval THEN 1 ELSE 0)
    + Cardinality({i \in 1..Len(orphans) : orphans[i].interval})

\* C21: a scanner that is not scanning (after Stop Camera) or that was torn
\* down has no polling interval scheduled, and at most one polling interval
\* is scheduled at any time.
C21_NoIntervalAfterStop ==
    /\ ~isScanning => ~scanInterval
    /\ \A i \in 1..Len(orphans) : ~orphans[i].interval
    /\ ScheduledIntervals <= 1

\* C30: whenever the scanner is not scanning, after Stop Camera or after its
\* teardown, no media stream acquired by a scanner is live.
C30_NoLiveStreamWhenNotScanning ==
    ~isScanning => liveStreams = 0

----------------------------------------------------------------------------
(* Claims about the roll *)

\* C22: in every reachable state every attendance record's studentId is the
\* id of a student in the store.
C22_RecordsReferToStudents ==
    \A r \in Range(attendanceRecords) : \E x \in Range(students) : x.id = r.studentId

C22_Witness ==
    /\ event.op = "deleteStudent"
    /\ \E r \in Range(attendanceRecords) : r.studentName = "Ana Li"
    /\ \A r \in Range(attendanceRecords) : r.studentId # "1"
    /\ Len(attendanceRecords) = 2

\* C23: a record is appended only while a teacher session is active, the
\* step keeps that session, and the appended record's markedBy is the e-mail
\* of the session's teacher.
C23_AppendedByTeacherSession ==
    [][Len(attendanceRecords') > Len(attendanceRecords)
       => /\ currentUser.role = "teacher"
          /\ currentUser' = currentUser
          /\ \E t \in Range(teachers) :
                /\ t.id = currentUser.id
                /\ attendanceRecords'[Len(attendanceRecords')].markedBy = t.email]_vars

C23_Witness ==
    /\ event.op = "handleScan"
    /\ currentUser.role = "teacher"
    /\ Len(attendanceRecords) = 3
    /\ attendanceRecords[3].studentName = "Ana Li"
    /\ attendanceRecords[3].markedBy = TeacherEmail

----------------------------------------------------------------------------
(* Claims about the cooldown *)

WithinTwoSecondsBefore(t) ==
    {t - k * TickMs : k \in {j \in 0..(2000 \div TickMs) : j * TickMs < 2000}}

\* C25: two attendance records are never appended less than 2 seconds apart:
\* a step that appends a record finds no record in the store created (its id
\* is the clock reading of its creation) less than 2 seconds earlier.
C25_AppendsTwoSecondsApart ==
    [][Len(attendanceRecords') > Len(attendanceRecords)
       => \A r \in Range(attendanceRecords) :
             \A t \in WithinTwoSecondsBefore(now) : r.id # ToString(t)]_vars

----------------------------------------------------------------------------
(* Claims about the overview statistics *)

\* The students that have a record dated today.
PresentToday ==
    {i \in 1..Len(students) :
        \E r \in Range(attendanceRecords) :
            r.studentId = students[i].id /\ r.date = DateOf(now)}

\* C26: on the overview of the teacher and admin dashboards, as rendered by
\* the last handler, the 'present today' count never exceeds the number of
\* students and is the number of distinct students with a record dated
\* today, and the rate is a percentage from 0 to 100, '0' without students.
C26_PresentTodayWithinStudents ==
    (OverviewMounted /\ event.op # "Tick") =>
        /\ Len(todayAttendance) <= Len(students)
        /\ Len(todayAttendance) = Cardinality(PresentToday)
        /\ IF Len(students) = 0
           THEN todayAttendanceRate = "0"
           ELSE \E t \in 0..1000 : todayAttendanceRate = TenthsNumeral(t)

----------------------------------------------------------------------------
(* Claims about the delayed change of a password *)

\* C27: a teacher's stored password changes only in a step taken while that
\* teacher is the user of the current session.
C27_PasswordChangesWithinSession ==
    [][\A old \in Range(teachers) : \A new \in Range(teachers') :
          (old.id = new.id /\ new.password # old.password)
          => (currentUser.role = "teacher" /\ currentUser.id = old.id)]_vars

----------------------------------------------------------------------------
(* Claims about the students' sessions and codes *)

\* C28: for every student S in the store, a student login with S's e-mail
\* and the fixed student password yields a session whose id and attendance
\* code are those of S.
C28_EveryStudentGetsOwnSession ==
    [][(event'.op = "handleLogin" /\ event'.role = "student"
        /\ event'.password = "student123")
       => \A x \in Range(students) :
             x.email = event'.email
             => (currentUser'.id = x.id /\ currentUser'.qrCode = x.qrCode)]_vars

\* C29: two students in the store whose school identifiers differ have
\* different attendance codes.
C29_DistinctStudentsDistinctCodes ==
    \A i, j \in 1..Len(students) :
        students[i].schoolId # students[j].schoolId
        => students[i].qrCode # students[j].qrCode

=============================================================================
